---- MODULE Spec2Model ----
(***************************************************************************)
(* Dependency-source detection (DependencyGetterBuilder.build) and the     *)
(* uv workspace-aware extraction (UvDependencyGetter.get) of deptry.       *)
(*                                                                         *)
(* Spec         one run of DependencyGetterBuilder.build()                 *)
(* SpecResolve  one call of _extract_module_names_from_pyproject           *)
(* SpecUv       one run of UvDependencyGetter.get()                        *)
(***************************************************************************)
EXTENDS Naturals, Sequences, FiniteSets

VARIABLES
    \* ---- DependencyGetterBuilder: fields and the files it reads
    config_exists,      \* self.config.exists()
    pyproject_toml,     \* the tables of the manifest at self.config
    ancestors,          \* the manifests of the real ancestor directories of
                        \* the project directory, nearest first
    config_parents,     \* how many of them self.config.parent.parents yields
    requirements_files, \* self.requirements_files
    using_default_requirements_files,
    is_file,            \* the names for which Path(name).is_file() held
    \* ---- control
    pc,                 \* position in the running method
    idx,                \* position of the ancestor walk
    result,             \* what build() returned or raised
    \* ---- UvDependencyGetter and the module-name resolver
    package_module_name_map,
    resolve_call,       \* arguments and value of the resolver's last call
    frame,              \* locals of _get_workspace_packages while it runs
    workspace_packages, \* the dict it builds, in insertion order
    base,               \* the extraction of the base class
    extract             \* what get() returned or raised

vars == <<config_exists, pyproject_toml, ancestors, config_parents,
          requirements_files, using_default_requirements_files, is_file,
          pc, idx, result, package_module_name_map, resolve_call, frame,
          workspace_packages, base, extract>>

builderVars == <<config_exists, pyproject_toml, ancestors, config_parents,
                 requirements_files, using_default_requirements_files>>

uvVars == <<package_module_name_map, resolve_call, frame,
            workspace_packages, base, extract>>

(***************************************************************************)
(* Bounds                                                                  *)
(***************************************************************************)
\* Real ancestor directories of the project directory.
MaxDepth == 2
\* Length of the supplied requirements-file tuple.
MaxReqFiles == 2
\* Module names in one entry of package_module_name_map.
MaxOverride == 1
\* Paths in one [tool.hatch.build.targets.wheel] packages list.
MaxPackages == 2
\* Entries of [tool.uv.sources], and paths of one workspace members list.
MaxMembers == 1
\* Runtime dependencies of the base extraction.
MaxDeps == 2
\* Development dependencies of one source (base class, tool.uv).
MaxDev == 1

(***************************************************************************)
(* Sequences helpers                                                       *)
(***************************************************************************)
SeqsUpTo(S, n) == UNION {[1..k -> S] : k \in 0..n}

Range(s) == {s[i] : i \in 1..Len(s)}

(***************************************************************************)
(* The manifest, as far as build() looks at it                             *)
(***************************************************************************)
UvKeys == {"dev-dependencies", "sources", "workspace"}

\* uv.present: there is a [tool.uv] table; uv.keys: which of the three keys
\* build() asks for it holds (it may hold others).
\* project: "absent", "empty" (a [project] table without entries) or "filled".
Manifests ==
    {m \in [poetry : BOOLEAN,
            uv : [present : BOOLEAN, keys : SUBSET UvKeys],
            pdm_dev : BOOLEAN,
            project : {"absent", "empty", "filled"}] :
        ~m.uv.present => m.uv.keys = {}}

NoManifest ==
    [poetry |-> FALSE, uv |-> [present |-> FALSE, keys |-> {}],
     pdm_dev |-> FALSE, project |-> "absent"]

\* What is at <ancestor>/pyproject.toml: no file, a file load_pyproject_toml
\* raises on, a manifest without [tool.uv.workspace], or one with it.
AncestorManifests == {"none", "unreadable", "plain", "workspace"}

FileNames == {"requirements.in", "requirements.txt"}

NoResult == [kind |-> "none", files |-> <<>>]

Getter(kind) == [kind |-> kind, files |-> <<>>]

(***************************************************************************)
(* DependencyGetterBuilder                                                 *)
(***************************************************************************)
_project_contains_pyproject_toml == config_exists

_project_uses_poetry_absent(toml) == FALSE

_project_uses_poetry(toml) == toml.poetry

_project_uses_pdm(toml) == toml.pdm_dev

_project_uses_uv(toml) ==
    /\ toml.uv.present
    /\ \/ "dev-dependencies" \in toml.uv.keys
       \/ "sources" \in toml.uv.keys
       \/ "workspace" \in toml.uv.keys

_project_uses_pep_621_present(toml) == toml.project # "absent"

\* pyproject_toml.get("project") is tested for truth: an empty table is false.
_project_uses_pep_621(toml) == toml.project = "filled"

\* self.config.parent.parents: pathlib computes it from the path's text, so
\* it yields the ancestors the path names, nearest first (all of them for an
\* absolute path, none for the path "pyproject.toml").
ConfigParents == SubSeq(ancestors, 1, config_parents)

IsWorkspaceRootAnyManifest(a) == a \in {"plain", "workspace"}

\* One turn of the loop of _project_is_in_uv_workspace over ancestor a: TRUE
\* when the loop returns True there.
IsWorkspaceRoot(a) == a = "workspace"

ExistingOnly(files) == SelectSeq(files, LAMBDA f : f \in is_file')

_project_uses_requirements_files_existing ==
    IF using_default_requirements_files /\ "requirements.in" \in is_file'
    THEN <<TRUE, <<"requirements.in">> >>
    ELSE IF \E i \in 1..Len(requirements_files) :
                requirements_files[i] \in is_file'
         THEN <<TRUE, ExistingOnly(requirements_files)>>
         ELSE <<FALSE, <<>> >>

_project_uses_requirements_files_no_flag ==
    IF "requirements.in" \in is_file'
    THEN <<TRUE, <<"requirements.in">> >>
    ELSE IF \E i \in 1..Len(requirements_files) :
                requirements_files[i] \in is_file'
         THEN <<TRUE, requirements_files>>
         ELSE <<FALSE, <<>> >>

\* The pair (check, requirements_files) the method returns, over the files
\* found when it runs.
_project_uses_requirements_files ==
    IF using_default_requirements_files /\ "requirements.in" \in is_file'
    THEN <<TRUE, <<"requirements.in">> >>
    ELSE IF \E i \in 1..Len(requirements_files) :
                requirements_files[i] \in is_file'
         THEN <<TRUE, requirements_files>>
         ELSE <<FALSE, <<>> >>

\* build(), lines 42-56: the manifest, Poetry, and the first operand of the
\* uv test; the second operand is the walk.
BuildManifest ==
    /\ pc = "build"
    /\ IF ~_project_contains_pyproject_toml
       THEN pc' = "requirements" /\ UNCHANGED <<idx, result>>
       ELSE IF _project_uses_poetry(pyproject_toml)
       THEN pc' = "done" /\ result' = Getter("poetry") /\ UNCHANGED idx
       ELSE IF _project_uses_uv(pyproject_toml)
       THEN pc' = "done" /\ result' = Getter("uv") /\ UNCHANGED idx
       ELSE pc' = "walk" /\ idx' = 1 /\ UNCHANGED result
    /\ UNCHANGED <<builderVars, is_file, uvVars>>

\* _project_is_in_uv_workspace, one ancestor: a missing file, a manifest
\* that cannot be loaded and one without the section all go on to the next.
WalkAncestor ==
    /\ pc = "walk"
    /\ idx <= Len(ConfigParents)
    /\ IF IsWorkspaceRoot(ConfigParents[idx])
       THEN pc' = "done" /\ result' = Getter("uv") /\ UNCHANGED idx
       ELSE idx' = idx + 1 /\ UNCHANGED <<pc, result>>
    /\ UNCHANGED <<builderVars, is_file, uvVars>>

\* The walk returned False: build(), lines 58-66.
AfterWalk ==
    /\ pc = "walk"
    /\ idx > Len(ConfigParents)
    /\ IF _project_uses_pdm(pyproject_toml)
       THEN pc' = "done" /\ result' = Getter("pdm")
       ELSE IF _project_uses_pep_621(pyproject_toml)
       THEN pc' = "done" /\ result' = Getter("pep621")
       ELSE pc' = "requirements" /\ UNCHANGED result
    /\ UNCHANGED <<builderVars, is_file, idx, uvVars>>

\* build(), lines 68-74.
BuildRequirements ==
    /\ pc = "requirements"
    /\ \E found \in SUBSET FileNames : is_file' = found
    /\ LET r == _project_uses_requirements_files
       IN  result' = IF r[1]
                     THEN [kind |-> "requirements", files |-> r[2]]
                     ELSE [kind |-> "error", files |-> requirements_files]
    /\ pc' = "done"
    /\ UNCHANGED <<builderVars, idx, uvVars>>

UvIdle ==
    /\ package_module_name_map = <<>>
    /\ resolve_call = <<>>
    /\ frame = <<>>
    /\ workspace_packages = <<>>
    /\ base = <<>>
    /\ extract = <<>>

Init ==
    /\ config_exists \in BOOLEAN
    /\ pyproject_toml \in (IF config_exists THEN Manifests ELSE {NoManifest})
    /\ ancestors \in SeqsUpTo(AncestorManifests, MaxDepth)
    /\ config_parents \in 0..Len(ancestors)
    /\ requirements_files \in SeqsUpTo(FileNames, MaxReqFiles)
    /\ using_default_requirements_files \in BOOLEAN
    /\ is_file = {}
    /\ pc = "build"
    /\ idx = 0
    /\ result = NoResult
    /\ UvIdle

Next ==
    \/ BuildManifest
    \/ WalkAncestor
    \/ AfterWalk
    \/ BuildRequirements

Spec == Init /\ [][Next]_vars

BuilderIdle ==
    /\ config_exists = TRUE
    /\ pyproject_toml = NoManifest
    /\ ancestors = <<>>
    /\ requirements_files = <<>>
    /\ using_default_requirements_files = TRUE
    /\ is_file = {}
    /\ idx = 0
    /\ result = NoResult

(***************************************************************************)
(* Names. A string is the sequence of its characters, so that replace()    *)
(* and lower() act on it as they do in Python.                             *)
(***************************************************************************)
StrReplace(s, old, new) ==
    [i \in 1..Len(s) |-> IF s[i] = old THEN new ELSE s[i]]

LowerChar(c) ==
    CASE c = "A" -> "a"
      [] c = "B" -> "b"
      [] c = "C" -> "c"
      [] OTHER -> c

StrLower(s) == [i \in 1..Len(s) |-> LowerChar(s[i])]

\* The names "a-b", "A_b" and "c": the first two differ in separator and
\* case only.
PackageNames == { <<"a", "-", "b">>, <<"A", "_", "b">>, <<"c">> }

\* The module names "m" and "a_b", and the directory "src".
ModM == <<"m">>
ModAB == <<"a", "_", "b">>
DirSrc == <<"s", "r", "c">>

ModuleNamePool == {ModM, ModAB}

\* A path is the sequence of its segments: ".", "m", "src/m", "src/a_b".
PackagePaths == { <<>>, <<ModM>>, <<DirSrc, ModM>>, <<DirSrc, ModAB>> }

\* Path(pkg).name: the last segment, "" for the path ".".
PathName(pkg) == IF pkg = <<>> THEN <<>> ELSE pkg[Len(pkg)]

\* package_module_name_map: package name -> tuple of module names.
OverrideTuples == SeqsUpTo(ModuleNamePool, MaxOverride)

OverrideMaps == UNION {[D -> OverrideTuples] : D \in SUBSET PackageNames}

\* A member manifest the resolver is handed: load_pyproject_toml raises on
\* it or yields its tool.hatch.build.targets.wheel.packages ([] by default).
ResolverManifests ==
    {m \in [readable : BOOLEAN, packages : SeqsUpTo(PackagePaths, MaxPackages)] :
        ~m.readable => m.packages = <<>>}

(***************************************************************************)
(* _extract_module_names_from_pyproject                                    *)
(***************************************************************************)
_extract_module_names_hatch_first(member, package_name) ==
    IF member.readable /\ member.packages # <<>>
    THEN [i \in 1..Len(member.packages) |-> PathName(member.packages[i])]
    ELSE IF package_name \in DOMAIN package_module_name_map
    THEN package_module_name_map[package_name]
    ELSE <<StrReplace(package_name, "-", "_")>>

_extract_module_names_from_pyproject(member, package_name) ==
    IF package_name \in DOMAIN package_module_name_map
    THEN package_module_name_map[package_name]
    ELSE IF member.readable /\ member.packages # <<>>
    THEN [i \in 1..Len(member.packages) |-> PathName(member.packages[i])]
    ELSE <<StrReplace(package_name, "-", "_")>>

\* One call of the resolver.
Resolve ==
    /\ pc = "resolve"
    /\ \E member \in ResolverManifests, package_name \in PackageNames :
           resolve_call' =
               [member |-> member, package_name |-> package_name,
                value |-> _extract_module_names_from_pyproject(member, package_name)]
    /\ pc' = "resolved"
    /\ UNCHANGED <<builderVars, is_file, idx, result, package_module_name_map,
                   frame, workspace_packages, base, extract>>

InitResolve ==
    /\ BuilderIdle
    /\ config_parents = 0
    /\ pc = "resolve"
    /\ package_module_name_map \in OverrideMaps
    /\ resolve_call = <<>>
    /\ frame = <<>>
    /\ workspace_packages = <<>>
    /\ base = <<>>
    /\ extract = <<>>

NextResolve == Resolve

SpecResolve == InitResolve /\ [][NextResolve]_vars

(***************************************************************************)
(* UvDependencyGetter: what it reads                                       *)
(***************************************************************************)
\* What is at <member path>/pyproject.toml. name is project.name, "" when
\* the manifest has none; packages is the hatch wheel packages list.
NoFile == [exists |-> FALSE, readable |-> FALSE, name |-> <<>>, packages |-> <<>>]

MemberManifests ==
    {m \in [exists : BOOLEAN, readable : BOOLEAN,
            name : PackageNames \cup {<<>>},
            packages : {<<>>, << <<DirSrc, ModM>> >>}] :
        /\ ~m.exists => m = NoFile
        /\ ~m.readable => (m.name = <<>> /\ m.packages = <<>>)}

\* One entry of [tool.uv.sources]: workspace says the entry is a table with
\* workspace = true, has_path that it has a path, member what is at the path.
SourceEntries ==
    {e \in [package_name : PackageNames, workspace : BOOLEAN,
            has_path : BOOLEAN, member : MemberManifests] :
        ~(e.workspace /\ e.has_path) => e.member = NoFile}

\* [tool.uv.sources]: absent, or its entries in document order (a table has
\* each key once).
SourcesTables ==
    {t \in [present : BOOLEAN, entries : SeqsUpTo(SourceEntries, MaxMembers)] :
        /\ ~t.present => t.entries = <<>>
        /\ \A i, j \in 1..Len(t.entries) :
               t.entries[i].package_name = t.entries[j].package_name => i = j}

\* [tool.uv.workspace].members of the project's manifest.
MembersLists ==
    {t \in [present : BOOLEAN, members : SeqsUpTo(MemberManifests, MaxMembers)] :
        ~t.present => t.members = <<>>}

\* What is at <ancestor>/pyproject.toml for the parser: as for the detector,
\* and a [tool.uv.workspace] table has a members list or has none.
UvAncestors ==
    {a \in [kind : {"none", "unreadable", "plain",
                    "workspace_no_members", "workspace"},
            members : SeqsUpTo(MemberManifests, MaxMembers)] :
        a.kind # "workspace" => a.members = <<>>}

\* package_module_name_map of the runs of get().
UvOverrideMaps == { <<>>, [n \in {<<"a", "-", "b">>} |-> <<ModM>>] }

\* The requirement strings "c>=1" and "a-b" of tool.uv.dev-dependencies.
DevStrings ==
    { [name |-> <<"c">>, specifier |-> ">=1"],
      [name |-> <<"a", "-", "b">>, specifier |-> ""] }

\* The names of the development dependencies of the base class.
SuperDevNames == { <<"c">> }

Dependency(name, module_names) ==
    [name |-> name, definition_file |-> "config", module_names |-> module_names]

\* A Dependency as the base class builds it: its module names come from the
\* naming fallback.
BaseDependency(name) == Dependency(name, {StrReplace(name, "-", "_")})

\* _extract_pep_508_dependencies: the name of each requirement string.
_extract_pep_508_dependencies(strings) ==
    [i \in 1..Len(strings) |-> BaseDependency(strings[i].name)]

\* The lists the base class extracts, each name declared once.
BaseDependencyLists(names, n) ==
    {[i \in 1..Len(q) |-> BaseDependency(q[i])] :
        q \in {r \in SeqsUpTo(names, n) :
                  \A i, j \in 1..Len(r) : r[i] = r[j] => i = j}}

(***************************************************************************)
(* UvDependencyGetter._get_workspace_packages                              *)
(***************************************************************************)
Keys(wp) == {wp[i].name : i \in 1..Len(wp)}

\* workspace_packages[name] = modules, on a dict kept in insertion order.
Put(wp, name, modules) ==
    IF name \in Keys(wp)
    THEN [i \in 1..Len(wp) |->
             IF wp[i].name = name
             THEN [name |-> name, modules |-> modules] ELSE wp[i]]
    ELSE Append(wp, [name |-> name, modules |-> modules])

\* Lines 97-107, one entry of [tool.uv.sources].
SourceEntry(wp, e) ==
    IF e.workspace /\ e.has_path /\ e.member.exists
    THEN Put(wp, e.package_name,
             _extract_module_names_from_pyproject(e.member, e.package_name))
    ELSE wp

\* Lines 117-129, one member path of the project's own members list: a
\* manifest that cannot be loaded is skipped.
OwnMember(wp, m) ==
    IF m.exists /\ m.readable /\ m.name # <<>>
    THEN Put(wp, m.name, _extract_module_names_from_pyproject(m, m.name))
    ELSE wp

\* Lines 144-155, one member path of an ancestor's members list: a name
\* already recorded is kept.
ParentMember(wp, m) ==
    IF m.exists /\ m.readable /\ m.name # <<>> /\ m.name \notin Keys(wp)
    THEN Put(wp, m.name, _extract_module_names_from_pyproject(m, m.name))
    ELSE wp

RECURSIVE SourcesPass(_, _)
SourcesPass(wp, entries) ==
    IF entries = <<>> THEN wp
    ELSE SourcesPass(SourceEntry(wp, Head(entries)), Tail(entries))

RECURSIVE OwnMembersPass(_, _)
OwnMembersPass(wp, members) ==
    IF members = <<>> THEN wp
    ELSE OwnMembersPass(OwnMember(wp, Head(members)), Tail(members))

RECURSIVE ParentMembersPass(_, _)
ParentMembersPass(wp, members) ==
    IF members = <<>> THEN wp
    ELSE ParentMembersPass(ParentMember(wp, Head(members)), Tail(members))

NoExtract == [kind |-> "none", dependencies |-> <<>>, dev_dependencies |-> <<>>]

Raised == [kind |-> "raised", dependencies |-> <<>>, dev_dependencies |-> <<>>]

\* Pass 1, lines 92-109: [tool.uv.sources] of the project's manifest.
GetSources ==
    /\ pc = "get"
    /\ \E t \in SourcesTables :
           workspace_packages' = SourcesPass(<<>>, t.entries)
    /\ frame' = [walked |-> <<>>, added |-> {}]
    /\ pc' = "members"
    /\ UNCHANGED <<builderVars, is_file, idx, result, package_module_name_map,
                   resolve_call, base, extract>>

\* Pass 2, lines 111-131: [tool.uv.workspace].members of the same manifest.
GetMembers ==
    /\ pc = "members"
    /\ \E t \in MembersLists :
           workspace_packages' = OwnMembersPass(workspace_packages, t.members)
    /\ pc' = "parents"
    /\ idx' = 1
    /\ UNCHANGED <<builderVars, is_file, result, package_module_name_map,
                   resolve_call, frame, base, extract>>

\* Pass 3, lines 133-158, one ancestor of self.config.parent.parents. Only
\* KeyError is caught around the load of the ancestor's manifest: what
\* load_pyproject_toml raises on a file it cannot read leaves get().
GetParent ==
    /\ pc = "parents"
    /\ idx <= config_parents
    /\ \E a \in UvAncestors :
        LET seen == [frame EXCEPT !.walked = Append(@, a.kind)]
        IN  CASE a.kind = "unreadable" ->
                   /\ extract' = Raised
                   /\ pc' = "done"
                   /\ frame' = seen
                   /\ UNCHANGED <<idx, workspace_packages>>
              [] a.kind = "workspace" ->
                   /\ workspace_packages' =
                          ParentMembersPass(workspace_packages, a.members)
                   /\ frame' = [seen EXCEPT !.added =
                                   Keys(workspace_packages') \ Keys(workspace_packages)]
                   /\ pc' = "return"
                   /\ UNCHANGED <<idx, extract>>
              [] OTHER ->
                   /\ idx' = idx + 1
                   /\ frame' = seen
                   /\ UNCHANGED <<pc, workspace_packages, extract>>
    /\ UNCHANGED <<builderVars, is_file, result, package_module_name_map,
                   resolve_call, base>>

\* The loop over the ancestors ran out.
ParentsEnd ==
    /\ pc = "parents"
    /\ idx > config_parents
    /\ pc' = "return"
    /\ UNCHANGED <<builderVars, is_file, idx, result, uvVars>>

\* Line 163: _get_workspace_packages returns the dict; its locals are gone.
ReturnWorkspacePackages ==
    /\ pc = "return"
    /\ frame' = <<>>
    /\ pc' = "super_get"
    /\ UNCHANGED <<builderVars, is_file, idx, result, package_module_name_map,
                   resolve_call, workspace_packages, base, extract>>

(***************************************************************************)
(* UvDependencyGetter._get_dev_dependencies and get()                      *)
(***************************************************************************)
RECURSIVE MergeByName(_, _)
MergeByName(kept, rest) ==
    IF rest = <<>> THEN kept
    ELSE IF \E i \in 1..Len(kept) : kept[i].name = Head(rest).name
    THEN MergeByName(kept, Tail(rest))
    ELSE MergeByName(Append(kept, Head(rest)), Tail(rest))

_get_dev_dependencies_merged(super_dev, dev_dependency_strings) ==
    MergeByName(<<>>, super_dev \o _extract_pep_508_dependencies(dev_dependency_strings))

\* Lines 44-54: super_dev is what super()._get_dev_dependencies returned,
\* dev_dependency_strings is tool.uv.dev-dependencies ([] when absent).
_get_dev_dependencies(super_dev, dev_dependency_strings) ==
    super_dev \o _extract_pep_508_dependencies(dev_dependency_strings)

NormalizeKeepCase(name) == StrReplace(name, "-", "_")

\* Lines 187 and 193: name.replace("-", "_").lower().
Normalize(name) == StrLower(StrReplace(name, "-", "_"))

Matches(dep, wp) ==
    {i \in 1..Len(wp) : Normalize(dep.name) = Normalize(wp[i].name)}

EnhanceDependencyRenamed(dep, wp) ==
    IF Matches(dep, wp) = {}
    THEN dep
    ELSE LET k == CHOOSE i \in Matches(dep, wp) :
                      \A j \in Matches(dep, wp) : i <= j
             ws_pkg == wp[k].name
         IN  Dependency(ws_pkg,
                 Range(wp[k].modules)
                     \cup {ws_pkg,
                           StrReplace(ws_pkg, "-", "_"),
                           StrReplace(ws_pkg, "_", "-"),
                           dep.name,
                           StrReplace(dep.name, "-", "_")})

\* Lines 192-218 for one dependency: the first workspace package that
\* matches, in the dict's order, rewrites it; without one it is kept.
EnhanceDependency(dep, wp) ==
    IF Matches(dep, wp) = {}
    THEN dep
    ELSE LET k == CHOOSE i \in Matches(dep, wp) :
                      \A j \in Matches(dep, wp) : i <= j
             ws_pkg == wp[k].name
         IN  Dependency(dep.name,
                 Range(wp[k].modules)
                     \cup {ws_pkg,
                           StrReplace(ws_pkg, "-", "_"),
                           StrReplace(ws_pkg, "_", "-"),
                           dep.name,
                           StrReplace(dep.name, "-", "_")})

\* get(), lines 176-223, after _get_workspace_packages returned: the base
\* class extracts (its development dependencies through
\* _get_dev_dependencies), then each runtime dependency is looked up.
FinishGet ==
    /\ pc = "super_get"
    /\ \E deps \in BaseDependencyLists(PackageNames, MaxDeps),
          super_dev \in BaseDependencyLists(SuperDevNames, MaxDev),
          strings \in SeqsUpTo(DevStrings, MaxDev) :
        /\ base' = [dependencies |-> deps,
                    super_dev |-> super_dev,
                    dev_dependency_strings |-> strings,
                    dev_dependencies |-> _get_dev_dependencies(super_dev, strings)]
        /\ extract' =
               [kind |-> "extract",
                dependencies |->
                    [i \in 1..Len(deps) |->
                        EnhanceDependency(deps[i], workspace_packages)],
                dev_dependencies |-> base'.dev_dependencies]
    /\ pc' = "done"
    /\ UNCHANGED <<builderVars, is_file, idx, result, package_module_name_map,
                   resolve_call, frame, workspace_packages>>

InitUv ==
    /\ BuilderIdle
    /\ config_parents \in 0..MaxDepth
    /\ pc = "get"
    /\ package_module_name_map \in UvOverrideMaps
    /\ resolve_call = <<>>
    /\ frame = <<>>
    /\ workspace_packages = <<>>
    /\ base = <<>>
    /\ extract = NoExtract

NextUv ==
    \/ GetSources
    \/ GetMembers
    \/ GetParent
    \/ ParentsEnd
    \/ ReturnWorkspacePackages
    \/ FinishGet

SpecUv == InitUv /\ [][NextUv]_vars

(***************************************************************************)
(* Detection: the claims about build()                                     *)
(***************************************************************************)
Done == pc = "done"

UvKeysPresent == pyproject_toml.uv.present /\ pyproject_toml.uv.keys # {}

\* Some real ancestor directory holds a manifest with [tool.uv.workspace].
AncestorHoldsWorkspace == \E i \in 1..Len(ancestors) : ancestors[i] = "workspace"

\* Some ancestor the config path names holds one.
NamedAncestorHoldsWorkspace ==
    \E i \in 1..config_parents : ancestors[i] = "workspace"

AutoSelected ==
    using_default_requirements_files /\ "requirements.in" \in is_file

SomeSuppliedExists ==
    \E i \in 1..Len(requirements_files) : requirements_files[i] \in is_file

\* C1: a manifest with a [tool.poetry] table always gives the Poetry parser,
\* whatever the other tables, the ancestors and the requirements files are.
C1_PoetryFirst ==
    (Done /\ config_exists /\ pyproject_toml.poetry)
        => result = Getter("poetry")

C1_Witness ==
    /\ Done /\ config_exists /\ pyproject_toml.poetry
    /\ pyproject_toml.uv.keys = UvKeys
    /\ pyproject_toml.pdm_dev
    /\ pyproject_toml.project = "filled"
    /\ AncestorHoldsWorkspace
    /\ requirements_files # <<>>
    /\ result.kind = "poetry"

\* C2 (as claimed): without [tool.poetry], the uv parser is returned if and
\* only if [tool.uv] holds one of the three keys or some ancestor directory
\* of the project directory holds a manifest with [tool.uv.workspace].
C2_UvIffKeysOrAncestor ==
    (Done /\ config_exists /\ ~pyproject_toml.poetry)
        => (result.kind = "uv" <=> (UvKeysPresent \/ AncestorHoldsWorkspace))

\* C3 (as claimed): a [project] table and none of the three extension tables
\* give the PEP 621 parser whatever the ancestor directories hold.
C3_Pep621WhateverAncestors ==
    (/\ Done /\ config_exists
     /\ pyproject_toml.project # "absent"
     /\ ~pyproject_toml.poetry /\ ~UvKeysPresent /\ ~pyproject_toml.pdm_dev)
        => result = Getter("pep621")

\* C3 (amended): a non-empty [project] table and none of the three extension
\* tables give the PEP 621 parser when no ancestor the config path names
\* holds a manifest with [tool.uv.workspace], and the uv parser when one does.
C3_Pep621UnlessWorkspaceMember ==
    (/\ Done /\ config_exists
     /\ pyproject_toml.project = "filled"
     /\ ~pyproject_toml.poetry /\ ~UvKeysPresent /\ ~pyproject_toml.pdm_dev)
        => result = (IF NamedAncestorHoldsWorkspace
                     THEN Getter("uv") ELSE Getter("pep621"))

C3_Witness ==
    /\ Done /\ config_exists
    /\ pyproject_toml.project = "filled"
    /\ ~pyproject_toml.poetry /\ ~UvKeysPresent /\ ~pyproject_toml.pdm_dev
    /\ config_parents = 2
    /\ ancestors = <<"unreadable", "plain">>
    /\ requirements_files # <<>>
    /\ result.kind = "pep621"

\* C4: without a manifest, with the default requirements files and an
\* existing requirements.in, the requirements parser gets exactly
\* ("requirements.in",); with supplied paths the parser gets the supplied
\* tuple, never the auto-selected one.
C4_RequirementsIn ==
    /\ (Done /\ ~config_exists /\ AutoSelected)
           => result = [kind |-> "requirements",
                        files |-> <<"requirements.in">>]
    /\ (Done /\ ~using_default_requirements_files
             /\ result.kind = "requirements")
           => result.files = requirements_files

C4_Witness ==
    /\ Done /\ ~config_exists
    /\ using_default_requirements_files
    /\ is_file = FileNames
    /\ requirements_files = <<"requirements.txt">>
    /\ result.files = <<"requirements.in">>

\* C5 (as claimed): every path handed to the requirements parser is an
\* existing file.
C5_OnlyExistingPaths ==
    (Done /\ result.kind = "requirements" /\ ~AutoSelected)
        => \A i \in 1..Len(result.files) : result.files[i] \in is_file

\* C5 (amended): when requirements.in is not auto-selected and at least one
\* supplied path is an existing file, the parser gets the whole supplied
\* tuple, the paths that do not exist included.
C5_WholeSuppliedTuple ==
    (Done /\ result.kind \in {"requirements", "error"} /\ ~AutoSelected
          /\ SomeSuppliedExists)
        => result = [kind |-> "requirements", files |-> requirements_files]

C5_Witness ==
    /\ Done /\ ~AutoSelected
    /\ result.kind = "requirements"
    /\ \E i \in 1..Len(result.files) : result.files[i] \in is_file
    /\ \E i \in 1..Len(result.files) : result.files[i] \notin is_file

DialectMatched ==
    /\ config_exists
    /\ \/ pyproject_toml.poetry
       \/ UvKeysPresent
       \/ NamedAncestorHoldsWorkspace
       \/ pyproject_toml.pdm_dev
       \/ pyproject_toml.project = "filled"

\* C6: build() raises DependencySpecificationNotFoundError exactly when no
\* manifest dialect matched and no requirements file was selected; the error
\* carries the supplied requirements-file tuple; otherwise build() returns
\* one of the five parsers.
C6_ErrorIffNothingFound ==
    Done =>
        /\ result.kind = "error"
               <=> (~DialectMatched /\ ~AutoSelected /\ ~SomeSuppliedExists)
        /\ result.kind = "error" => result.files = requirements_files
        /\ result.kind \in
               {"poetry", "uv", "pdm", "pep621", "requirements", "error"}

C6_Witness ==
    /\ Done /\ config_exists
    /\ pyproject_toml.project = "empty"
    /\ is_file = {"requirements.in"}
    /\ requirements_files = <<"requirements.txt">>
    /\ result = [kind |-> "error", files |-> <<"requirements.txt">>]

(***************************************************************************)
(* The module-name resolver: C8                                            *)
(***************************************************************************)
Resolved == pc = "resolved"

HasOverride ==
    resolve_call.package_name \in DOMAIN package_module_name_map

HasPackagesList ==
    resolve_call.member.readable /\ resolve_call.member.packages # <<>>

\* value is the one name: package_name with every hyphen an underscore.
IsUnderscoredName(value, package_name) ==
    /\ Len(value) = 1
    /\ Len(value[1]) = Len(package_name)
    /\ \A i \in 1..Len(package_name) :
           value[1][i] = (IF package_name[i] = "-" THEN "_" ELSE package_name[i])

\* value is the last segment of each path of the packages list, in order.
IsLastSegments(value, packages) ==
    /\ Len(value) = Len(packages)
    /\ \A i \in 1..Len(packages) :
           IF Len(packages[i]) = 0
           THEN value[i] = <<>>
           ELSE value[i] = packages[i][Len(packages[i])]

ByFirstApplicableRule ==
    /\ HasOverride =>
           resolve_call.value = package_module_name_map[resolve_call.package_name]
    /\ (~HasOverride /\ HasPackagesList) =>
           IsLastSegments(resolve_call.value, resolve_call.member.packages)
    /\ (~HasOverride /\ ~HasPackagesList) =>
           IsUnderscoredName(resolve_call.value, resolve_call.package_name)

\* C8 (as claimed): the resolver returns a non-empty collection for every
\* package name, override map and member manifest, by the first applicable
\* rule: override entry, packages list, underscored package name.
C8_NonEmptyByFirstRule ==
    Resolved => (resolve_call.value # <<>> /\ ByFirstApplicableRule)

\* C8 (amended): the resolver returns the value of the first applicable
\* rule; it is empty exactly when the override map's entry for the package is
\* the empty tuple, and non-empty for every other input, an unreadable
\* member manifest included.
C8_FirstRuleEmptyOnlyByOverride ==
    Resolved =>
        /\ ByFirstApplicableRule
        /\ resolve_call.value = <<>>
               <=> (HasOverride
                    /\ package_module_name_map[resolve_call.package_name] = <<>>)

C8_Witness ==
    /\ Resolved
    /\ ~HasOverride
    /\ DOMAIN package_module_name_map # {}
    /\ ~resolve_call.member.readable
    /\ resolve_call.package_name = <<"a", "-", "b">>
    /\ resolve_call.value = << <<"a", "_", "b">> >>

(***************************************************************************)
(* The uv parser: C7, C9, C10                                              *)
(***************************************************************************)
Extracted == extract.kind = "extract"

Underscored(n) == [i \in 1..Len(n) |-> IF n[i] = "-" THEN "_" ELSE n[i]]

Hyphenated(n) == [i \in 1..Len(n) |-> IF n[i] = "_" THEN "-" ELSE n[i]]

Folded(n) ==
    [i \in 1..Len(n) |->
        IF n[i] \in {"-", "_"} THEN "_"
        ELSE IF n[i] = "A" THEN "a"
        ELSE IF n[i] = "B" THEN "b"
        ELSE IF n[i] = "C" THEN "c"
        ELSE n[i]]

\* The workspace packages whose normalized name is that of name.
MembersNamedLike(name) ==
    {k \in 1..Len(workspace_packages) :
        Folded(workspace_packages[k].name) = Folded(name)}

FirstMemberNamedLike(name) ==
    CHOOSE k \in MembersNamedLike(name) :
        \A j \in MembersNamedLike(name) : k <= j

C9_UnreadableManifestNeverRaises ==
    extract.kind = "raised" => "unreadable" \notin Range(frame.walked)

Names(deps) == {deps[i].name : i \in 1..Len(deps)}

Occurrences(deps, name) == Cardinality({i \in 1..Len(deps) : deps[i].name = name})

\* The base class kept its side: no name twice among its runtime and
\* development dependencies.
BaseNamesDistinct ==
    LET all == base.dependencies \o base.super_dev
    IN  \A i, j \in 1..Len(all) : all[i].name = all[j].name => i = j

\* C10 (as claimed): a name declared in a base development source and in
\* [tool.uv.dev-dependencies] appears once in dev_dependencies, and no name
\* appears in both dependencies and dev_dependencies.
C10_NamesAtMostOnce ==
    (Extracted /\ BaseNamesDistinct) =>
        /\ \A n \in Names(base.super_dev) :
               Occurrences(extract.dev_dependencies, n) = 1
        /\ Names(extract.dependencies) \cap Names(extract.dev_dependencies) = {}

\* C10 (amended): dev_dependencies is the development dependencies of the
\* base class followed by one dependency per entry of
\* [tool.uv.dev-dependencies], in order and unmerged, so a name of both
\* sources appears once per declaration; get() keeps every declared name.
C10_DevDependenciesConcatenated ==
    Extracted =>
        LET dev == extract.dev_dependencies
            n == Len(base.super_dev)
        IN  /\ Len(dev) = n + Len(base.dev_dependency_strings)
            /\ \A i \in 1..n : dev[i] = base.super_dev[i]
            /\ \A j \in 1..Len(base.dev_dependency_strings) :
                   dev[n + j].name = base.dev_dependency_strings[j].name
            /\ \A m \in PackageNames :
                   Occurrences(extract.dependencies, m)
                       = Occurrences(base.dependencies, m)

C10_Witness ==
    /\ Extracted
    /\ BaseNamesDistinct
    /\ Occurrences(extract.dev_dependencies, <<"c">>) = 2
    /\ Names(base.super_dev) = { <<"c">> }
    /\ Names(base.dev_dependency_strings) = { <<"c">> }
    /\ <<"a", "-", "b">> \in Names(extract.dependencies)

\* A manifest of this kind has a [tool.uv.workspace] section.
HasWorkspaceSection(kind) == kind \in {"workspace_no_members", "workspace"}

\* _get_workspace_packages is through its walk and has not raised.
Walked == pc = "return"

\* C11 (as claimed): the ancestor search goes from the nearest ancestor
\* outwards and stops at the first ancestor whose manifest has a
\* [tool.uv.workspace] section; only that ancestor contributes members, and
\* without such an ancestor the search visits every ancestor to the last.
C11_StopsAtFirstWorkspaceSection ==
    Walked =>
        LET w == frame.walked
        IN  /\ \A i \in 1..Len(w) : HasWorkspaceSection(w[i]) => i = Len(w)
            /\ frame.added # {} =>
                   /\ Len(w) > 0
                   /\ HasWorkspaceSection(w[Len(w)])
                   /\ \A i \in 1..(Len(w) - 1) : ~HasWorkspaceSection(w[i])
            /\ (\A i \in 1..Len(w) : ~HasWorkspaceSection(w[i])) =>
                   Len(w) = config_parents

====
